---- MODULE Spec2Model ----
(***************************************************************************)
(* State-machine model of the typing game's session engine:                *)
(*   js/gameController.js (the version of lines 222-491, the one that is   *)
(*   in force: SCORING table, deferred countdown, results record),         *)
(*   questsManager.js (src/unnamed/part_001, lines 51-162) and             *)
(*   js/inputManager.js (lines 1-83).                                      *)
(*                                                                         *)
(* Conventions.                                                            *)
(*  - A JavaScript string is a sequence of one-character strings; reading  *)
(*    past either end of it gives "undefined", as typedText[i] does.       *)
(*  - state.score is a real number; every quantity the code adds to it is  *)
(*    a multiple of 0.01, so score is kept in hundredths (score = 816      *)
(*    stands for 8.16).  Floating-point rounding error is not modelled.    *)
(*  - setInterval/clearInterval: intervals is the set of interval ids the  *)
(*    browser is running; state.intervalId is 0 for null.                  *)
(*  - One action is one callback run to completion (single-threaded event  *)
(*    loop): a click on start, an input event, a keydown of Enter, a       *)
(*    compositionstart/compositionend event, one firing of an interval.    *)
(*  - The initial state is the page once the promises of                   *)
(*    gameController.init() and questsManager.init() have settled: the     *)
(*    catalogs stored and the listeners attached, or, after a failed load, *)
(*    what the catch blocks leave behind.                                  *)
(***************************************************************************)
EXTENDS Integers, Sequences, FiniteSets, TLC

VARIABLES
    \* gameController.js: const state = {...}
    status, phrases, currentPhrase, timer, score, misses, combo,
    totalTyped, totalCorrect, difficulty, intervalId, lastGameResults,
    isGameStarted,
    \* questsManager.js
    allQuests, activeQuests,
    \* inputManager.js; listening: init(onInput, onCommit) has attached the
    \* listeners of the hidden field
    hiddenInput, isComposing, listening,
    \* the platform: the running intervals
    intervals,
    \* did the last change or commit callback end by throwing (the text of a
    \* null phrase was read); did Promise.all of the two init() calls reject
    \* (main.js reports the error)
    raised, initRejected,
    \* the sinks of endGame: the record on the results screen
    \* (renderer.displayResults), the records persisted by storageManager, and
    \* the number of endGame calls that ended by throwing
    resultsScreen, stored, endGameErrors,
    \* history of the run, kept for the properties only
    nStarts, nChanges, phrasesCompleted, sessionMisses, awards,
    ticksSinceArm, startsSinceArm, endGameCalls, compositionClosed,
    \* how far this run is explored (fixed by the initial state)
    limits

stateVars == <<status, phrases, currentPhrase, timer, score, misses, combo,
               totalTyped, totalCorrect, difficulty, intervalId,
               lastGameResults, isGameStarted>>
questVars == <<allQuests, activeQuests>>
inputVars == <<hiddenInput, isComposing, listening>>
platformVars == <<intervals>>
obsVars == <<raised, initRejected>>
sinkVars == <<resultsScreen, stored, endGameErrors>>
historyVars == <<nStarts, nChanges, phrasesCompleted, sessionMisses, awards,
                 ticksSinceArm, startsSinceArm, endGameCalls,
                 compositionClosed>>
vars == <<stateVars, questVars, inputVars, platformVars, obsVars, sinkVars,
          historyVars, limits>>

----------------------------------------------------------------------------
(* Bounds of the exploration.  Spec follows whole games (all 60 seconds of *)
(* the countdown) with little typing and SpecResults whole games with more *)
(* typing; SpecTyping, SpecScenario and SpecSessions follow the typing of   *)
(* the first seconds of a countdown.                                       *)

\* Spec: start requests in one run
MaxStarts == 2
\* Spec: change events processed while Playing, over the whole run
MaxChanges == 1
\* Spec: phrases completed in one session
MaxPhrases == 1
\* Spec: seconds of a countdown during which the player types or commits
MaxBusy == 1
\* SpecTyping: start requests in one run
TypingStarts == 1
\* SpecTyping: change events processed while Playing, over the whole run
TypingChanges == 5
\* SpecTyping: phrases completed in one session
TypingPhrases == 1
\* SpecTyping: seconds of a countdown that are followed
TypingSeconds == 1
\* SpecScenario: start requests in one run
ScenarioStarts == 1
\* SpecScenario: change events processed while Playing, over the whole run
ScenarioChanges == 5
\* SpecScenario: phrases completed in one session
ScenarioPhrases == 1
\* SpecScenario: seconds of a countdown that are followed
ScenarioSeconds == 1
\* SpecResults: start requests in one run
ResultsStarts == 2
\* SpecResults: change events processed while Playing, over the whole run
ResultsChanges == 3
\* SpecResults: phrases completed in one session
ResultsPhrases == 1
\* SpecResults: seconds of a countdown during which the player types or commits
ResultsBusy == 1
\* SpecQuests: start requests in one run
QuestsStarts == 1
\* SpecQuests: change events processed while Playing, over the whole run
QuestsChanges == 2
\* SpecQuests: phrases completed in one session
QuestsPhrases == 1
\* SpecQuests: seconds of a countdown during which the player types or commits
QuestsBusy == 1
\* SpecStreak: start requests in one run
StreakStarts == 2
\* SpecStreak: change events processed while Playing, over the whole run
StreakChanges == 3
\* SpecStreak: phrases completed in one session
StreakPhrases == 2
\* SpecStreak: seconds of a countdown that are followed
StreakSeconds == 1
\* SpecBonus: start requests in one run
BonusStarts == 1
\* SpecBonus: change events processed while Playing, over the whole run
BonusChanges == 1
\* SpecBonus: phrases completed in one session
BonusPhrases == 1
\* SpecSessions: start requests in one run
SessionStarts == 2
\* SpecSessions: change events processed while Playing, over the whole run
SessionChanges == 3
\* SpecSessions: phrases completed in one session
SessionPhrases == 2
\* SpecSessions: seconds of a countdown that are followed
SessionSeconds == 1
\* SpecLive: start requests in one run
LiveStarts == 1
\* SpecLive: change events processed while Playing, over the whole run
LiveChanges == 2
\* SpecLive: phrases completed in one session
LivePhrases == 1
\* SpecLive: seconds of a countdown during which the player types or commits
LiveBusy == 1

----------------------------------------------------------------------------
(* Program constants *)

GAME_DURATION == 60

basePoint == 10
missPenalty == 15
timeBonusFactor == 200
\* SCORING.comboMultiplier = 0.02, in hundredths
comboMultiplier100 == 2

\* SCORING.difficultyFactor, in tenths; `|| 1` for a value not in the table
difficultyFactor10(d) ==
    CASE d = "easy" -> 8
      [] d = "normal" -> 10
      [] d = "hard" -> 12
      [] d = "lunatic" -> 15
      [] OTHER -> 10

\* the values of the difficulty select that are explored
Difficulties == {"normal", "lunatic"}

----------------------------------------------------------------------------
(* Input data: the catalogs fetched by the two init() calls *)

NoPhrase == [id |-> "null", text |-> <<>>]

PhraseA == [id |-> "p1", text |-> <<"a">>]
PhraseB == [id |-> "p2", text |-> <<"a", "b">>]

PhraseCatalogs == {<<>>, <<PhraseA>>, <<PhraseA, PhraseB>>}

\* the texts the hidden input field takes: empty, one character (right, wrong,
\* whitespace), two characters (the whole of PhraseB, a character after a space)
Buffers == {<<>>, <<"a">>, <<"b">>, <<" ">>, <<"a", "b">>, <<" ", "a">>}

\* the texts without white space
QuestsBuffers == {<<>>, <<"a">>, <<"b">>, <<"a", "b">>}

\* the catalog and the field texts of the scenario "cat with one wrong
\* character": the prefixes of cat, and a wrong key x at each position
PhraseCat == [id |-> "cat", text |-> <<"c", "a", "t">>]
PhraseDog == [id |-> "dog", text |-> <<"d", "o", "g">>]

ScenarioCatalogs == {<<PhraseCat, PhraseDog>>}

ScenarioBuffers ==
    {<<>>, <<"x">>, <<"c">>, <<"c", "x">>, <<"c", "a">>, <<"c", "a", "x">>,
     <<"c", "a", "t">>}

\* what `await fetch(...)` and `await response.json()` give an init(): the
\* array in the field phrases/quests, a failed fetch or parse, or a field
\* that is not an array
Loaded(catalog) == [kind |-> "array", value |-> catalog]
FetchError == [kind |-> "fetch_error", value |-> <<>>]
NotAnArray == [kind |-> "not_array", value |-> <<>>]
LoadFailures == {FetchError, NotAnArray}

QCombo == [id |-> "q_combo", type |-> "combo", target |-> 2, count |-> 0,
           difficulty |-> "", scoreBonus |-> 50]
QNoMiss == [id |-> "q_nomiss", type |-> "no_miss", target |-> 0, count |-> 1,
            difficulty |-> "", scoreBonus |-> 100]
QPhrases == [id |-> "q_phrases", type |-> "phrases_completed", target |-> 0,
             count |-> 2, difficulty |-> "", scoreBonus |-> 30]
QAccuracy == [id |-> "q_acc", type |-> "accuracy", target |-> 90, count |-> 0,
              difficulty |-> "", scoreBonus |-> 70]
QDifficulty == [id |-> "q_diff", type |-> "difficulty_specific", target |-> 0,
                count |-> 0, difficulty |-> "lunatic", scoreBonus |-> 20]

\* a NoMiss quest that asks for two phrases, an accuracy quest whose target
\* a session can meet exactly
QNoMissTwo == [id |-> "q_nomiss2", type |-> "no_miss", target |-> 0, count |-> 2,
               difficulty |-> "", scoreBonus |-> 100]
QAccuracyHalf == [id |-> "q_acc50", type |-> "accuracy", target |-> 50, count |-> 0,
                  difficulty |-> "", scoreBonus |-> 70]

\* reset() activates the first three definitions of the catalog
QuestCatalogs == {<<QCombo, QNoMiss, QPhrases, QAccuracy, QDifficulty>>}
\* a catalog whose active quests give no reward while a phrase is being typed
QuestCatalogsTyping ==
    QuestCatalogs \cup {<<QNoMiss, QPhrases, QAccuracy, QDifficulty, QCombo>>}

\* a catalog of fewer definitions than reset() asks for
QuestCatalogsShort == {<<QNoMissTwo, QCombo>>}
\* catalogs whose active quests are checked at the end of a game
QuestCatalogsGameEnd ==
    {<<QAccuracyHalf, QDifficulty, QNoMissTwo>>, <<QAccuracy, QCombo, QPhrases>>}

----------------------------------------------------------------------------
(* JavaScript strings *)

\* s[i] with the 0-based index i; undefined outside the string
CharAt(s, i) == IF i + 1 \in 1..Len(s) THEN s[i + 1] ELSE "undefined"

IsWhitespace(c) == c = " "

\* the field text after one key: a character appended, or the last character
\* deleted (Backspace)
IsKeystroke(old, new) ==
    \/ Len(new) = Len(old) + 1 /\ SubSeq(new, 1, Len(old)) = old
    \/ Len(old) = Len(new) + 1 /\ SubSeq(old, 1, Len(new)) = new

\* String.prototype.trim
RECURSIVE Trim(_)
Trim(s) ==
    IF s = <<>> THEN s
    ELSE IF IsWhitespace(Head(s)) THEN Trim(Tail(s))
    ELSE IF IsWhitespace(s[Len(s)]) THEN Trim(SubSeq(s, 1, Len(s) - 1))
    ELSE s

\* Math.round of a value given in hundredths (halves go up)
Round(x100) == (x100 + 50) \div 100

RECURSIVE SumSeq(_)
SumSeq(q) == IF q = <<>> THEN 0 ELSE Head(q) + SumSeq(Tail(q))

----------------------------------------------------------------------------
(* questsManager.js *)

\* reset(count = 3): the first count definitions, as fresh wrappers
DefaultQuestCount == 3

\* variant of reset: every definition is activated
resetAll(defs, count) ==
    [i \in 1..Len(defs) |-> [def |-> defs[i], completed |-> FALSE, progress |-> 0]]

reset(defs, count) ==
    [i \in 1..(IF Len(defs) < count THEN Len(defs) ELSE count) |->
        [def |-> defs[i], completed |-> FALSE, progress |-> 0]]

\* init(): allQuests and activeQuests afterwards, and whether the promise
\* is rejected (the catch block empties allQuests and throws again)
questsManagerInit(load) ==
    IF load.kind = "array"
    THEN [allQuests |-> load.value,
          activeQuests |-> reset(load.value, DefaultQuestCount),
          rejected |-> FALSE]
    ELSE [allQuests |-> <<>>, activeQuests |-> <<>>, rejected |-> TRUE]

\* variant of evalQuest: a phrase-count quest counts every event
evalQuestAnyEvent(quest, eventType, data) ==
         LET progressed ==
                 \/ /\ quest.def.type = "no_miss"
                    /\ eventType = "phrase_complete" /\ data.misses = 0
                 \/ quest.def.type = "phrases_completed"
             progress == IF progressed THEN quest.progress + 1 ELSE quest.progress
             questCompleted ==
                 CASE quest.def.type = "no_miss" ->
                        progressed /\ progress >= quest.def.count
                   [] quest.def.type = "combo" ->
                        eventType = "stat_update" /\ data.combo >= quest.def.target
                   [] quest.def.type = "phrases_completed" ->
                        progressed /\ progress >= quest.def.count
                   [] quest.def.type = "accuracy" ->
                        /\ eventType = "game_end"
                        /\ data.accuracy.num >= quest.def.target * data.accuracy.den
                   [] quest.def.type = "difficulty_specific" ->
                        /\ eventType = "game_end"
                        /\ data.difficulty = quest.def.difficulty
                   [] OTHER -> FALSE
         IN [quest |-> [quest EXCEPT !.progress = progress,
                                     !.completed = questCompleted],
             questCompleted |-> questCompleted]

\* variant of evalQuest: the accuracy must exceed the target
evalQuestStrictAccuracy(quest, eventType, data) ==
         LET progressed ==
                 \/ /\ quest.def.type = "no_miss"
                    /\ eventType = "phrase_complete" /\ data.misses = 0
                 \/ /\ quest.def.type = "phrases_completed"
                    /\ eventType = "phrase_complete"
             progress == IF progressed THEN quest.progress + 1 ELSE quest.progress
             questCompleted ==
                 CASE quest.def.type = "no_miss" ->
                        progressed /\ progress >= quest.def.count
                   [] quest.def.type = "combo" ->
                        eventType = "stat_update" /\ data.combo >= quest.def.target
                   [] quest.def.type = "phrases_completed" ->
                        progressed /\ progress >= quest.def.count
                   [] quest.def.type = "accuracy" ->
                        /\ eventType = "game_end"
                        /\ data.accuracy.num > quest.def.target * data.accuracy.den
                   [] quest.def.type = "difficulty_specific" ->
                        /\ eventType = "game_end"
                        /\ data.difficulty = quest.def.difficulty
                   [] OTHER -> FALSE
         IN [quest |-> [quest EXCEPT !.progress = progress,
                                     !.completed = questCompleted],
             questCompleted |-> questCompleted]

\* the switch of check for one quest that is not completed: the quest
\* afterwards and the local flag questCompleted (the quest is pushed on the
\* returned list)
evalQuest(quest, eventType, data) ==
         LET progressed ==
                 \/ /\ quest.def.type = "no_miss"
                    /\ eventType = "phrase_complete" /\ data.misses = 0
                 \/ /\ quest.def.type = "phrases_completed"
                    /\ eventType = "phrase_complete"
             progress == IF progressed THEN quest.progress + 1 ELSE quest.progress
             questCompleted ==
                 CASE quest.def.type = "no_miss" ->
                        progressed /\ progress >= quest.def.count
                   [] quest.def.type = "combo" ->
                        eventType = "stat_update" /\ data.combo >= quest.def.target
                   [] quest.def.type = "phrases_completed" ->
                        progressed /\ progress >= quest.def.count
                   [] quest.def.type = "accuracy" ->
                        \* data.accuracy >= target, accuracy being num/den
                        /\ eventType = "game_end"
                        /\ data.accuracy.num >= quest.def.target * data.accuracy.den
                   [] quest.def.type = "difficulty_specific" ->
                        /\ eventType = "game_end"
                        /\ data.difficulty = quest.def.difficulty
                   [] OTHER -> FALSE
         IN [quest |-> [quest EXCEPT !.progress = progress,
                                     !.completed = questCompleted],
             questCompleted |-> questCompleted]

\* variant of checkQuest: a completed quest is evaluated again
checkQuestAgain(quest, eventType, data) == evalQuest(quest, eventType, data)

\* variant of checkQuest: a completed quest is not returned again but its
\* progress is still counted
checkQuestReprogress(quest, eventType, data) ==
    IF quest.completed
    THEN [quest |-> [quest EXCEPT
                        !.progress = evalQuest(quest, eventType, data).quest.progress],
          questCompleted |-> FALSE]
    ELSE evalQuest(quest, eventType, data)

\* check, line 103: if (quest.completed) return;
checkQuest(quest, eventType, data) ==
    IF quest.completed THEN [quest |-> quest, questCompleted |-> FALSE]
    ELSE evalQuest(quest, eventType, data)

\* check(eventType, data): per active quest, in order, the quest afterwards
\* and whether it is on the returned list
check(quests, eventType, data) ==
    [i \in 1..Len(quests) |-> checkQuest(quests[i], eventType, data)]

----------------------------------------------------------------------------
(* gameController.js: scoring *)

\* variant of charScore: the combo before its increment
charScorePreIncrement(c, d) ==
    (basePoint * difficultyFactor10(d) * (100 + (c - 1) * comboMultiplier100)) \div 10

\* handleInput, lines 424-426, in hundredths
charScore(c, d) ==
    (basePoint * difficultyFactor10(d) * (100 + c * comboMultiplier100)) \div 10

\* variant of timeBonus: Math.round in place of Math.floor
timeBonusRounded(t) == (2 * t * timeBonusFactor + GAME_DURATION) \div (2 * GAME_DURATION)

\* handleCommit, line 454: Math.floor((timer / GAME_DURATION) * timeBonusFactor)
timeBonus(t) == (t * timeBonusFactor) \div GAME_DURATION

\* variant of accuracyOf: the quotient whatever totalTyped is
accuracyOfUnguarded(typed, correct) == [num |-> correct * 100, den |-> typed]

\* endGame, line 328, as the fraction num/den
accuracyOf(typed, correct) ==
    IF typed > 0 THEN [num |-> correct * 100, den |-> typed]
    ELSE [num |-> 0, den |-> 1]

\* endGame, line 330: (totalCorrect / 5) / (GAME_DURATION / 60)
wpmOf(correct) == [num |-> correct * 60, den |-> 5 * GAME_DURATION]

NoResults == [score |-> 0, accuracy |-> [num |-> 0, den |-> 0],
              wpm |-> [num |-> 0, den |-> 0]]

----------------------------------------------------------------------------
(* gameController.js: the handlers.  A handler is a function from the      *)
(* values of the variables before the callback (the record Cur) to their   *)
(* values after it; nextPhrase draws a phrase at random, so it and its     *)
(* callers give the set of possible outcomes.                              *)

Cur ==
    [status |-> status, currentPhrase |-> currentPhrase, timer |-> timer,
     score |-> score, misses |-> misses, combo |-> combo,
     totalTyped |-> totalTyped, totalCorrect |-> totalCorrect,
     difficulty |-> difficulty, intervalId |-> intervalId,
     lastGameResults |-> lastGameResults, isGameStarted |-> isGameStarted,
     activeQuests |-> activeQuests, hiddenInput |-> hiddenInput,
     intervals |-> intervals, raised |-> FALSE,
     resultsScreen |-> resultsScreen, stored |-> stored,
     endGameErrors |-> endGameErrors,
     nStarts |-> nStarts, nChanges |-> nChanges,
     phrasesCompleted |-> phrasesCompleted, sessionMisses |-> sessionMisses,
     awards |-> awards, ticksSinceArm |-> ticksSinceArm,
     startsSinceArm |-> startsSinceArm, endGameCalls |-> endGameCalls,
     compositionClosed |-> FALSE]

Becomes(s) ==
    /\ status' = s.status
    /\ currentPhrase' = s.currentPhrase
    /\ timer' = s.timer
    /\ score' = s.score
    /\ misses' = s.misses
    /\ combo' = s.combo
    /\ totalTyped' = s.totalTyped
    /\ totalCorrect' = s.totalCorrect
    /\ difficulty' = s.difficulty
    /\ intervalId' = s.intervalId
    /\ lastGameResults' = s.lastGameResults
    /\ isGameStarted' = s.isGameStarted
    /\ activeQuests' = s.activeQuests
    /\ hiddenInput' = s.hiddenInput
    /\ intervals' = s.intervals
    /\ raised' = s.raised
    /\ resultsScreen' = s.resultsScreen
    /\ stored' = s.stored
    /\ endGameErrors' = s.endGameErrors
    /\ nStarts' = s.nStarts
    /\ nChanges' = s.nChanges
    /\ phrasesCompleted' = s.phrasesCompleted
    /\ sessionMisses' = s.sessionMisses
    /\ awards' = s.awards
    /\ ticksSinceArm' = s.ticksSinceArm
    /\ startsSinceArm' = s.startsSinceArm
    /\ endGameCalls' = s.endGameCalls
    /\ compositionClosed' = s.compositionClosed

\* handleCompletedQuests(completedQuests): the reward of every returned quest
handleCompletedQuests(s, checked) ==
    [s EXCEPT
        !.score = @ + 100 * SumSeq([i \in 1..Len(checked) |->
                     IF checked[i].questCompleted
                     THEN checked[i].quest.def.scoreBonus ELSE 0]),
        !.awards = [i \in 1..Len(checked) |->
                     @[i] + (IF checked[i].questCompleted THEN 1 ELSE 0)]]

\* const r = questsManager.check(eventType, data); handleCompletedQuests(r)
questEvent(s, eventType, data) ==
    LET checked == check(s.activeQuests, eventType, data)
    IN handleCompletedQuests(
           [s EXCEPT !.activeQuests = [i \in 1..Len(checked) |-> checked[i].quest]],
           checked)

\* clearInterval(id): no effect for an id that is not running
clearInterval(running, id) == running \ {id}

\* the id setInterval returns: one that names no interval, running or stale
newIntervalId(running, stale) ==
    CHOOSE n \in 1..(Cardinality(running) + 2) :
        /\ n \notin running /\ n # stale
        /\ \A m \in 1..(n - 1) : m \in running \/ m = stale

\* storageManager.js exports save and load only (lines 38-41), so the call
\* storageManager.saveGameResult(record) of endGame, line 350, calls
\* undefined: a TypeError leaves endGame and nothing is persisted
storageManagerExports == {"save", "load"}

saveGameResult(s, record) ==
    IF "saveGameResult" \in storageManagerExports
    THEN [s EXCEPT !.stored = Append(@, record)]
    ELSE [s EXCEPT !.endGameErrors = @ + 1]

\* variant of endGame: the difficulty falls back to normal
endGameDefaultDifficulty(s) ==
    LET s1 == [s EXCEPT !.intervals = clearInterval(@, s.intervalId),
                        !.status = "finished",
                        !.isGameStarted = FALSE,
                        !.difficulty = "normal",
                        !.endGameCalls = @ + 1]
        accuracy == accuracyOf(s1.totalTyped, s1.totalCorrect)
        wpm == wpmOf(s1.totalCorrect)
        s2 == questEvent(s1, "game_end",
                         [difficulty |-> s1.difficulty, accuracy |-> accuracy])
        results == [score |-> Round(s2.score), accuracy |-> accuracy, wpm |-> wpm]
        s3 == [s2 EXCEPT !.resultsScreen = results, !.lastGameResults = results]
    IN saveGameResult(s3, s3.lastGameResults)

\* variant of endGame: the results record is built before the game_end check
endGameResultsFirst(s) ==
    LET s1 == [s EXCEPT !.intervals = clearInterval(@, s.intervalId),
                        !.status = "finished",
                        !.isGameStarted = FALSE,
                        !.endGameCalls = @ + 1]
        accuracy == accuracyOf(s1.totalTyped, s1.totalCorrect)
        wpm == wpmOf(s1.totalCorrect)
        results == [score |-> Round(s1.score), accuracy |-> accuracy, wpm |-> wpm]
        s2 == questEvent(s1, "game_end",
                         [difficulty |-> s1.difficulty, accuracy |-> accuracy])
        s3 == [s2 EXCEPT !.resultsScreen = results, !.lastGameResults = results]
    IN saveGameResult(s3, s3.lastGameResults)

endGame(s) ==
    LET s1 == [s EXCEPT !.intervals = clearInterval(@, s.intervalId),
                        !.status = "finished",
                        !.isGameStarted = FALSE,
                        !.endGameCalls = @ + 1]
        accuracy == accuracyOf(s1.totalTyped, s1.totalCorrect)
        wpm == wpmOf(s1.totalCorrect)
        s2 == questEvent(s1, "game_end",
                         [difficulty |-> s1.difficulty, accuracy |-> accuracy])
        results == [score |-> Round(s2.score), accuracy |-> accuracy, wpm |-> wpm]
        s3 == [s2 EXCEPT !.resultsScreen = results, !.lastGameResults = results]
    IN saveGameResult(s3, s3.lastGameResults)

\* variant of tick: the game ends when timer < 0
tickEndsLate(s) ==
    LET s1 == [s EXCEPT !.timer = @ - 1,
                        !.ticksSinceArm = IF s.startsSinceArm THEN @ ELSE @ + 1]
    IN IF s1.timer < 0 THEN endGame(s1) ELSE s1

tick(s) ==
    LET s1 == [s EXCEPT !.timer = @ - 1,
                        !.ticksSinceArm = IF s.startsSinceArm THEN @ ELSE @ + 1]
    IN IF s1.timer <= 0 THEN endGame(s1) ELSE s1

\* variant of phraseChoices: the first draw is kept
phraseChoicesAny(catalog, current) == {catalog[i] : i \in 1..Len(catalog)}

\* the phrases the do-while of nextPhrase can leave with
phraseChoices(catalog, current) ==
    {catalog[i] : i \in {j \in 1..Len(catalog) :
                            ~(Len(catalog) > 1 /\ catalog[j].id = current.id)}}

\* variant of nextPhrase: the totals are reset with the per-phrase misses
nextPhraseResetsTotals(s) ==
    IF Len(phrases) = 0
    THEN {[s EXCEPT !.intervals = IF s.intervalId # 0
                                  THEN clearInterval(@, s.intervalId) ELSE @,
                    !.status = "finished"]}
    ELSE {questEvent([s EXCEPT !.hiddenInput = <<>>,
                               !.currentPhrase = newPhrase,
                               !.misses = 0,
                               !.totalTyped = 0,
                               !.totalCorrect = 0],
                     "phrase_start", [text |-> newPhrase.text]) :
             newPhrase \in phraseChoices(phrases, s.currentPhrase)}

\* variant of nextPhrase: with an empty catalog the session is left as it is
nextPhraseStaysPlaying(s) ==
    IF Len(phrases) = 0
    THEN {s}
    ELSE {questEvent([s EXCEPT !.hiddenInput = <<>>,
                               !.currentPhrase = newPhrase,
                               !.misses = 0],
                     "phrase_start", [text |-> newPhrase.text]) :
             newPhrase \in phraseChoices(phrases, s.currentPhrase)}

nextPhrase(s) ==
    IF Len(phrases) = 0
    THEN {[s EXCEPT !.intervals = IF s.intervalId # 0
                                  THEN clearInterval(@, s.intervalId) ELSE @,
                    !.status = "finished"]}
    ELSE {questEvent([s EXCEPT !.hiddenInput = <<>>,
                               !.currentPhrase = newPhrase,
                               !.misses = 0],
                     "phrase_start", [text |-> newPhrase.text]) :
             newPhrase \in phraseChoices(phrases, s.currentPhrase)}

\* variant of startGame: combo is carried over from the previous session
startGameKeepsCombo(s, d) ==
    nextPhrase([s EXCEPT !.status = "playing",
                         !.score = 0,
                         !.misses = 0,
                         !.timer = GAME_DURATION,
                         !.totalTyped = 0,
                         !.totalCorrect = 0,
                         !.difficulty = d,
                         !.activeQuests = reset(allQuests, DefaultQuestCount),
                         !.awards = [i \in 1..Len(reset(allQuests, DefaultQuestCount)) |-> 0],
                         !.nStarts = @ + 1,
                         !.phrasesCompleted = 0,
                         !.sessionMisses = 0,
                         !.ticksSinceArm = 0,
                         !.startsSinceArm = TRUE])

startGame(s, d) ==
    nextPhrase([s EXCEPT !.status = "playing",
                         !.score = 0,
                         !.misses = 0,
                         !.combo = 0,
                         !.timer = GAME_DURATION,
                         !.totalTyped = 0,
                         !.totalCorrect = 0,
                         !.difficulty = d,
                         !.activeQuests = reset(allQuests, DefaultQuestCount),
                         !.awards = [i \in 1..Len(reset(allQuests, DefaultQuestCount)) |-> 0],
                         !.nStarts = @ + 1,
                         !.phrasesCompleted = 0,
                         !.sessionMisses = 0,
                         !.ticksSinceArm = 0,
                         !.startsSinceArm = TRUE])

\* variant of armsTimer: isGameStarted is not consulted
armsTimerAlways(started, typedText) ==
    Len(typedText) = 1 /\ Trim(typedText) # <<>>

\* variant of armsTimer: any single character arms the countdown
armsTimerUntrimmed(started, typedText) ==
    ~started /\ Len(typedText) = 1

\* handleInput, line 410: the condition under which the countdown is armed
armsTimer(started, typedText) ==
    ~started /\ Len(typedText) = 1 /\ Trim(typedText) # <<>>

\* handleInput, lines 418-422: lastTypedChar === correctChar
isCorrectChar(typedText, phraseText) ==
    CharAt(typedText, Len(typedText) - 1) = CharAt(phraseText, Len(typedText) - 1)

\* handleInput, lines 410-414
armTimer(s, typedText) ==
    LET id == newIntervalId(s.intervals, s.intervalId)
    IN IF armsTimer(s.isGameStarted, typedText)
       THEN [s EXCEPT !.isGameStarted = TRUE,
                      !.intervalId = id,
                      !.intervals = @ \cup {id},
                      !.ticksSinceArm = 0,
                      !.startsSinceArm = FALSE,
                      !.endGameCalls = 0]
       ELSE s

\* variant of scoreChar: the penalty scaled by the difficulty factor
scoreCharScaledPenalty(s, correct) ==
    LET s1 == IF correct
              THEN [s EXCEPT !.combo = @ + 1,
                             !.score = @ + charScore(s.combo + 1, s.difficulty),
                             !.totalCorrect = @ + 1]
              ELSE [s EXCEPT !.combo = 0,
                             !.misses = @ + 1,
                             !.score = @ - 10 * missPenalty * difficultyFactor10(s.difficulty),
                             !.sessionMisses = @ + 1]
    IN [s1 EXCEPT !.totalTyped = @ + 1, !.nChanges = @ + 1]

\* variant of scoreChar: totalTyped counted in the correct branch only
scoreCharCountsCorrectOnly(s, correct) ==
    LET s1 == IF correct
              THEN [s EXCEPT !.combo = @ + 1,
                             !.score = @ + charScore(s.combo + 1, s.difficulty),
                             !.totalCorrect = @ + 1,
                             !.totalTyped = @ + 1]
              ELSE [s EXCEPT !.combo = 0,
                             !.misses = @ + 1,
                             !.score = @ - 100 * missPenalty,
                             !.sessionMisses = @ + 1]
    IN [s1 EXCEPT !.nChanges = @ + 1]

\* handleInput, lines 422-436: the counters after one classified character
scoreChar(s, correct) ==
    LET s1 == IF correct
              THEN [s EXCEPT !.combo = @ + 1,
                             !.score = @ + charScore(s.combo + 1, s.difficulty),
                             !.totalCorrect = @ + 1]
              ELSE [s EXCEPT !.combo = 0,
                             !.misses = @ + 1,
                             !.score = @ - 100 * missPenalty,
                             !.sessionMisses = @ + 1]
    IN [s1 EXCEPT !.totalTyped = @ + 1, !.nChanges = @ + 1]

\* handleInput, lines 409-441: what follows the status test
processInput(s, typedText) ==
    LET s1 == armTimer(s, typedText)
    IN IF s1.currentPhrase = NoPhrase
       THEN [s1 EXCEPT !.raised = TRUE]  \* null has no property text
       ELSE LET s2 == scoreChar(s1, isCorrectChar(typedText, s1.currentPhrase.text))
            IN questEvent(s2, "stat_update", [combo |-> s2.combo])

\* variant of handleInput: no status test
handleInputUnguarded(s, typedText) == processInput(s, typedText)

handleInput(s, typedText) ==
    IF s.status # "playing" THEN s ELSE processInput(s, typedText)

\* variant of handleCommit: the phrase advance comes before the
\* phrase_complete check
handleCommitAdvancesFirst(s, typedText) ==
    IF s.status # "playing" THEN {s}
    ELSE IF s.currentPhrase = NoPhrase THEN {[s EXCEPT !.raised = TRUE]}
    ELSE IF typedText = s.currentPhrase.text
    THEN LET s1 == [s EXCEPT !.score = @ + 100 * timeBonus(s.timer),
                             !.phrasesCompleted = @ + 1]
         IN {questEvent(s2, "phrase_complete", [misses |-> s2.misses]) :
                s2 \in nextPhrase(s1)}
    ELSE {s}

\* variant of handleCommit: the text is trimmed before the comparison
handleCommitTrimmed(s, typedText) ==
    IF s.status # "playing" THEN {s}
    ELSE IF s.currentPhrase = NoPhrase THEN {[s EXCEPT !.raised = TRUE]}
    ELSE IF Trim(typedText) = s.currentPhrase.text
    THEN LET s1 == [s EXCEPT !.score = @ + 100 * timeBonus(s.timer)]
             s2 == questEvent(s1, "phrase_complete", [misses |-> s1.misses])
         IN nextPhrase([s2 EXCEPT !.phrasesCompleted = @ + 1])
    ELSE {s}

handleCommit(s, typedText) ==
    IF s.status # "playing" THEN {s}
    ELSE IF s.currentPhrase = NoPhrase THEN {[s EXCEPT !.raised = TRUE]}
    ELSE IF typedText = s.currentPhrase.text
    THEN LET s1 == [s EXCEPT !.score = @ + 100 * timeBonus(s.timer)]
             s2 == questEvent(s1, "phrase_complete", [misses |-> s1.misses])
         IN nextPhrase([s2 EXCEPT !.phrasesCompleted = @ + 1])
    ELSE {s}

\* init(): state.phrases afterwards, whether inputManager.init was reached,
\* and whether the promise is rejected (the catch block throws again)
gameControllerInit(load) ==
    IF load.kind = "array"
    THEN [phrases |-> load.value, listening |-> TRUE, rejected |-> FALSE]
    ELSE [phrases |-> <<>>, listening |-> FALSE, rejected |-> TRUE]

----------------------------------------------------------------------------
(* The initial state: `const state = {...}` and the page once the promises *)
(* of the two init() calls have settled, the field empty.  main.js attaches *)
(* the start listeners whatever the outcome of Promise.all.                 *)

InitWith(phraseLoads, questLoads, lim) ==
    /\ status = "ready"
    /\ \E pl \in phraseLoads, ql \in questLoads :
          /\ phrases = gameControllerInit(pl).phrases
          /\ listening = gameControllerInit(pl).listening
          /\ allQuests = questsManagerInit(ql).allQuests
          /\ activeQuests = questsManagerInit(ql).activeQuests
          /\ initRejected = (gameControllerInit(pl).rejected
                              \/ questsManagerInit(ql).rejected)
    /\ currentPhrase = NoPhrase
    /\ timer = GAME_DURATION
    /\ score = 0
    /\ misses = 0
    /\ combo = 0
    /\ totalTyped = 0
    /\ totalCorrect = 0
    /\ difficulty = "normal"
    /\ intervalId = 0
    /\ lastGameResults = NoResults
    /\ isGameStarted = FALSE
    /\ hiddenInput = <<>>
    /\ isComposing = FALSE
    /\ intervals = {}
    /\ raised = FALSE
    /\ resultsScreen = NoResults
    /\ stored = <<>>
    /\ endGameErrors = 0
    /\ nStarts = 0
    /\ nChanges = 0
    /\ phrasesCompleted = 0
    /\ sessionMisses = 0
    /\ awards = [i \in 1..Len(activeQuests) |-> 0]
    /\ ticksSinceArm = 0
    /\ startsSinceArm = FALSE
    /\ endGameCalls = 0
    /\ compositionClosed = FALSE
    /\ limits = lim

\* both catalogs loaded
Init ==
    InitWith({Loaded(c) : c \in PhraseCatalogs}, {Loaded(c) : c \in QuestCatalogs},
             [starts |-> MaxStarts, changes |-> MaxChanges,
              phrases |-> MaxPhrases, seconds |-> GAME_DURATION,
              busy |-> MaxBusy, buffers |-> Buffers, keystrokes |-> FALSE])

InitTyping ==
    InitWith({Loaded(c) : c \in PhraseCatalogs},
             {Loaded(c) : c \in QuestCatalogsTyping},
             [starts |-> TypingStarts, changes |-> TypingChanges,
              phrases |-> TypingPhrases, seconds |-> TypingSeconds,
              busy |-> TypingSeconds, buffers |-> Buffers, keystrokes |-> FALSE])

\* whole games with several characters typed
InitResults ==
    InitWith({Loaded(c) : c \in PhraseCatalogs}, {Loaded(c) : c \in QuestCatalogs},
             [starts |-> ResultsStarts, changes |-> ResultsChanges,
              phrases |-> ResultsPhrases, seconds |-> GAME_DURATION,
              busy |-> ResultsBusy, buffers |-> Buffers, keystrokes |-> FALSE])

\* whole games with quests that are checked at the end of the game
InitQuests ==
    InitWith({Loaded(<<PhraseA, PhraseB>>)},
             {Loaded(c) : c \in QuestCatalogsGameEnd},
             [starts |-> QuestsStarts, changes |-> QuestsChanges,
              phrases |-> QuestsPhrases, seconds |-> GAME_DURATION,
              busy |-> QuestsBusy, buffers |-> QuestsBuffers,
              keystrokes |-> FALSE])

\* several sessions and phrases with a catalog of two quests, one of them a
\* NoMiss quest that asks for two phrases
InitStreak ==
    InitWith({Loaded(<<PhraseA>>), Loaded(<<PhraseA, PhraseB>>)},
             {Loaded(c) : c \in QuestCatalogsShort},
             [starts |-> StreakStarts, changes |-> StreakChanges,
              phrases |-> StreakPhrases, seconds |-> StreakSeconds,
              busy |-> StreakSeconds, buffers |-> Buffers, keystrokes |-> FALSE])

\* whole games in which the player types and commits at any second
InitLive ==
    InitWith({Loaded(c) : c \in PhraseCatalogs}, {Loaded(c) : c \in QuestCatalogs},
             [starts |-> LiveStarts, changes |-> LiveChanges,
              phrases |-> LivePhrases, seconds |-> GAME_DURATION,
              busy |-> LiveBusy, buffers |-> Buffers, keystrokes |-> FALSE])

InitBonus ==
    InitWith({Loaded(c) : c \in PhraseCatalogs}, {Loaded(c) : c \in QuestCatalogs},
             [starts |-> BonusStarts, changes |-> BonusChanges,
              phrases |-> BonusPhrases, seconds |-> GAME_DURATION,
              busy |-> GAME_DURATION, buffers |-> Buffers, keystrokes |-> FALSE])

\* the scenario "cat with one wrong character": the catalog [cat, dog], the
\* field edited one key at a time
InitScenario ==
    InitWith({Loaded(c) : c \in ScenarioCatalogs}, {Loaded(c) : c \in QuestCatalogs},
             [starts |-> ScenarioStarts, changes |-> ScenarioChanges,
              phrases |-> ScenarioPhrases, seconds |-> ScenarioSeconds,
              busy |-> ScenarioSeconds, buffers |-> ScenarioBuffers,
              keystrokes |-> TRUE])

\* several sessions and phrases, the first seconds of a countdown; either
\* load may have failed
InitSessions ==
    InitWith({Loaded(c) : c \in PhraseCatalogs} \cup LoadFailures,
             {Loaded(c) : c \in QuestCatalogs} \cup LoadFailures,
             [starts |-> SessionStarts, changes |-> SessionChanges,
              phrases |-> SessionPhrases, seconds |-> SessionSeconds,
              busy |-> SessionSeconds, buffers |-> Buffers, keystrokes |-> FALSE])

----------------------------------------------------------------------------
(* The callbacks *)

\* the player acts on the field: not explored late in a countdown
busy == status = "playing" => timer > GAME_DURATION - limits.busy

\* a click on the start button or on the play-again button
StartGame(d) ==
    /\ nStarts < limits.starts
    /\ \E s \in startGame(Cur, d) : Becomes(s)
    /\ UNCHANGED <<phrases, allQuests, isComposing, listening, initRejected,
                   limits>>

\* variant of InputEvent: the value is passed on whatever isComposing is
InputEventUnsuppressed(v) ==
    /\ busy
    /\ limits.keystrokes => IsKeystroke(hiddenInput, v)
    /\ (listening /\ status = "playing") => nChanges < limits.changes
    /\ LET s == [Cur EXCEPT !.hiddenInput = v]
       IN Becomes(IF listening THEN handleInput(s, v) ELSE s)
    /\ UNCHANGED <<phrases, allQuests, isComposing, listening, initRejected,
                   limits>>

\* an input event on the hidden field, whose value has become v
InputEvent(v) ==
    /\ busy
    /\ limits.keystrokes => IsKeystroke(hiddenInput, v)
    /\ (listening /\ ~isComposing /\ status = "playing")
           => nChanges < limits.changes
    /\ LET s == [Cur EXCEPT !.hiddenInput = v]
       IN Becomes(IF listening /\ ~isComposing THEN handleInput(s, v) ELSE s)
    /\ UNCHANGED <<phrases, allQuests, isComposing, listening, initRejected,
                   limits>>

\* keydown of Enter on the hidden field
Commit ==
    /\ busy
    /\ (status = "playing" /\ hiddenInput = currentPhrase.text)
           => phrasesCompleted < limits.phrases
    /\ listening
    /\ \E s \in handleCommit(Cur, hiddenInput) : Becomes(s)
    /\ UNCHANGED <<phrases, allQuests, isComposing, listening, initRejected,
                   limits>>

CompositionStart ==
    /\ busy
    /\ listening
    /\ ~isComposing
    /\ isComposing' = TRUE
    /\ Becomes(Cur)
    /\ UNCHANGED <<phrases, allQuests, listening, initRejected, limits>>

\* variant of CompositionEnd: the flag is cleared and the text is left to a
\* later input event
CompositionEndSilent ==
    /\ busy
    /\ listening
    /\ isComposing
    /\ status = "playing" => nChanges < limits.changes
    /\ isComposing' = FALSE
    /\ Becomes([Cur EXCEPT !.compositionClosed = TRUE])
    /\ UNCHANGED <<phrases, allQuests, listening, initRejected, limits>>

CompositionEnd ==
    /\ busy
    /\ listening
    /\ isComposing
    /\ status = "playing" => nChanges < limits.changes
    /\ isComposing' = FALSE
    /\ Becomes([handleInput(Cur, hiddenInput) EXCEPT !.compositionClosed = TRUE])
    /\ UNCHANGED <<phrases, allQuests, listening, initRejected, limits>>

\* one firing of the running interval id
Tick(id) ==
    /\ id \in intervals
    /\ timer > GAME_DURATION - limits.seconds
    /\ Becomes(tick(Cur))
    /\ UNCHANGED <<phrases, allQuests, isComposing, listening, initRejected,
                   limits>>

Next ==
    \/ \E d \in Difficulties : StartGame(d)
    \/ \E v \in limits.buffers : InputEvent(v)
    \/ Commit
    \/ CompositionStart
    \/ CompositionEnd
    \/ \E id \in intervals : Tick(id)

\* whole games, little typing
Spec == Init /\ [][Next]_vars

\* more typing, the first seconds of a countdown
SpecTyping == InitTyping /\ [][Next]_vars

\* whole games, more typing
SpecResults == InitResults /\ [][Next]_vars

\* whole games, quests of the end of the game
SpecQuests == InitQuests /\ [][Next]_vars

\* restarts and several phrases, two quests
SpecStreak == InitStreak /\ [][Next]_vars

\* whole games, a phrase completed at any second
SpecBonus == InitBonus /\ [][Next]_vars

\* whole games of one session; a running interval (setInterval(tick, 1000))
\* keeps firing
SpecLive ==
    InitLive /\ [][Next]_vars /\ WF_vars(\E id \in intervals : Tick(id))

\* the catalog [cat, dog], typed one key at a time
SpecScenario == InitScenario /\ [][Next]_vars

\* restarts and several phrases, with and without a failed load
SpecSessions == InitSessions /\ [][Next]_vars

----------------------------------------------------------------------------
(* Properties *)

\* the quest rewards handed out so far in the session, in hundredths
rewardsGiven ==
    100 * SumSeq([i \in 1..Len(activeQuests) |->
                     awards[i] * activeQuests[i].def.scoreBonus])

\* a countdown was armed and no start request has come since
cleanCountdown == intervalId # 0 /\ ~startsSinceArm

\* C1: a countdown armed at timer = 60 and followed by no start request has
\* timer = 60 - (ticks fired) while it runs, runs only while Playing and below
\* 60 ticks, and is over exactly at the 60th tick: then status is Finished,
\* endGame has run once, and no interval is left to fire a 61st tick.
C1_FinishedAtSixtiethTick ==
    /\ (cleanCountdown /\ intervals # {}) =>
           /\ status = "playing"
           /\ timer = GAME_DURATION - ticksSinceArm
           /\ ticksSinceArm < GAME_DURATION
           /\ endGameCalls = 0
    /\ (cleanCountdown /\ intervals = {}) =>
           /\ status = "finished"
           /\ timer = 0
           /\ ticksSinceArm = GAME_DURATION
           /\ endGameCalls = 1
    /\ status = "finished" => intervals = {}

C1_Witness ==
    /\ cleanCountdown
    /\ status = "finished"
    /\ ticksSinceArm = GAME_DURATION
    /\ endGameCalls = 1

\* a change event reaches handleInput
ChangeEvent ==
    \/ \E v \in limits.buffers : InputEvent(v) /\ listening /\ ~isComposing
    \/ CompositionEnd

\* C2: while status is not Playing, a change event or a commit event leaves
\* score, combo, misses, totalTyped, totalCorrect, timer, currentPhrase,
\* status, the quests and the countdown as they are, and nothing is thrown.
C2_IgnoredUnlessPlaying ==
    [][(status # "playing" /\ (ChangeEvent \/ Commit)) =>
          /\ UNCHANGED <<score, combo, misses, totalTyped, totalCorrect, timer,
                         currentPhrase, status, activeQuests, awards, intervals,
                         intervalId, isGameStarted, lastGameResults>>
          /\ raised' = FALSE]_vars

\* Finished by the countdown, and the field holds a text that only a change
\* event delivered after the finish can have left there
C2_Witness ==
    /\ status = "finished"
    /\ endGameCalls = 1
    /\ nChanges = limits.changes
    /\ ~isComposing
    /\ hiddenInput = <<" ", "a">>

\* C3 (as claimed): in a session in which no change event has been processed
\* yet, the countdown has not started: timer is the full duration.
C3_Claim ==
    (status = "playing" /\ totalTyped = 0) => timer = GAME_DURATION

\* C4 (as claimed): while Playing with the countdown not armed, a change
\* event whose buffer is neither empty nor whitespace-only arms the countdown.
C4_Claim ==
    [][(/\ status = "playing"
        /\ ~isGameStarted
        /\ ChangeEvent
        /\ Trim(hiddenInput') # <<>>) =>
           (isGameStarted' /\ intervals' # {})]_vars

\* the sum over k = 1..n of basePoints * difficultyFactor * (1 + k * 0.02),
\* in hundredths
RECURSIVE comboSum(_, _)
comboSum(n, d) ==
    IF n = 0 THEN 0
    ELSE comboSum(n - 1, d)
         + (10 * (CASE d = "easy" -> 8 [] d = "normal" -> 10
                    [] d = "hard" -> 12 [] d = "lunatic" -> 15) * (100 + 2 * n)) \div 10

\* C5: in a session with N change events, all classified correct, and no
\* phrase completed, comboCount is N and score is the closed-form sum with
\* combo values 1..N, plus the rewards of the quests completed on the way
\* (none in the claim's case).
C5_ComboAndScoreOfCorrectRun ==
    (status = "playing" /\ sessionMisses = 0 /\ phrasesCompleted = 0) =>
        /\ combo = totalTyped
        /\ totalCorrect = totalTyped
        /\ score = comboSum(totalTyped, difficulty) + rewardsGiven

C5_Witness ==
    /\ status = "playing"
    /\ sessionMisses = 0
    /\ phrasesCompleted = 0
    /\ totalTyped = 3
    /\ rewardsGiven = 0
    /\ difficulty = "lunatic"

\* C6: a change event classified incorrect sets comboCount to 0 and lowers
\* score by exactly 15, whatever the difficulty and the prior combo.
C6_MissResetsComboAndCosts15 ==
    [][sessionMisses' = sessionMisses + 1 =>
          (combo' = 0 /\ score' = score - 1500)]_vars

\* two correct characters, then a miss at combo 2
C6_Witness ==
    /\ totalTyped = 3
    /\ totalCorrect = 2
    /\ sessionMisses = 1
    /\ combo = 0
    /\ difficulty = "lunatic"

\* C7: totalTyped = totalCorrect exactly when no change event of the session
\* has been classified incorrect.
C7_TypedEqualsCorrectIffNoMiss ==
    (totalTyped = totalCorrect) <=> (sessionMisses = 0)

\* a miss, then a phrase advance that has reset the per-phrase miss counter
C7_Witness ==
    /\ status = "playing"
    /\ sessionMisses = 1
    /\ phrasesCompleted = 1
    /\ misses = 0
    /\ totalTyped > totalCorrect

\* C8: totalTyped >= totalCorrect always, and no step other than a start
\* request lowers totalTyped or totalCorrect.
C8_CountersMonotone ==
    /\ [](totalTyped >= totalCorrect)
    /\ [][nStarts' = nStarts =>
             (totalTyped' >= totalTyped /\ totalCorrect' >= totalCorrect)]_vars

\* characters typed, a phrase completed, and the game ended by the countdown
C8_Witness ==
    /\ status = "finished"
    /\ endGameCalls = 1
    /\ totalTyped = 1
    /\ phrasesCompleted = 1

\* C9: within a session every active quest is returned at most once, and is
\* completed exactly if it has been returned; a combo quest is returned by
\* the stat_update check on which combo reaches its target (it is never
\* pending with combo at the target); and every change event changes score
\* by its character's delta plus the scoreBonus of the quests it returns.
C9_QuestReturnedOnce ==
    /\ [](\A i \in 1..Len(activeQuests) :
            /\ awards[i] <= 1
            /\ activeQuests[i].completed <=> awards[i] = 1
            /\ (activeQuests[i].def.type = "combo" /\ status = "playing"
                /\ combo >= activeQuests[i].def.target) => awards[i] = 1)
    /\ [][totalTyped' = totalTyped + 1 =>
             score' - score =
                 (IF sessionMisses' = sessionMisses
                  THEN comboSum(combo', difficulty) - comboSum(combo' - 1, difficulty)
                  ELSE -1500)
                 + rewardsGiven' - rewardsGiven]_vars

\* the combo quest was returned, combo fell to 0 and is back at the target
C9_Witness ==
    /\ Len(activeQuests) >= 1
    /\ activeQuests[1].def.type = "combo"
    /\ awards[1] = 1
    /\ totalTyped = 5
    /\ totalCorrect = 4
    /\ combo = 2

\* C10: with at least 2 phrases in the catalog, every phrase advance (at a
\* start request and at a phrase completion) has a phrase to select, and
\* selects a phrase of the catalog whose id differs from the previous one.
C10_NoImmediateRepeat ==
    /\ [](Len(phrases) >= 2 =>
            \E i \in 1..Len(phrases) : phrases[i].id # currentPhrase.id)
    /\ [][(/\ Len(phrases) >= 2
           /\ (nStarts' = nStarts + 1 \/ phrasesCompleted' = phrasesCompleted + 1)) =>
             /\ currentPhrase'.id # currentPhrase.id
             /\ \E i \in 1..Len(phrases) : phrases[i] = currentPhrase']_vars

\* second session of a run, after a phrase completion in a 2-phrase catalog
C10_Witness ==
    /\ Len(phrases) = 2
    /\ nStarts = 2
    /\ phrasesCompleted = 1

\* C11 (as claimed): catalog [cat, dog], difficulty normal, current phrase
\* cat, the field edited one key at a time.  At the commit of cat typed with
\* exactly one wrong character, misses is 1 and totalTyped is 4; the commit
\* advances the phrase to dog and leaves the progress of a NoMiss quest as
\* it is.
C11_Claim ==
    [][(/\ Commit
        /\ status = "playing"
        /\ difficulty = "normal"
        /\ currentPhrase = PhraseCat
        /\ hiddenInput = PhraseCat.text
        /\ sessionMisses = 1
        /\ phrasesCompleted = 0) =>
           /\ misses = 1
           /\ totalTyped = 4
           /\ currentPhrase' = PhraseDog
           /\ \A i \in 1..Len(activeQuests) :
                  activeQuests[i].def.type = "no_miss" =>
                      activeQuests'[i].progress = activeQuests[i].progress]_vars

\* C12: once endGame has run, the results record holds an accuracy and a WPM
\* that are numbers (no division by zero); with totalTyped = 0 both are 0;
\* otherwise accuracy = totalCorrect / totalTyped * 100; accuracy lies in
\* 0..100; and WPM = (totalCorrect / 5) / (GAME_DURATION / 60).
C12_AccuracyAndWpm ==
    (status = "finished" /\ lastGameResults # NoResults) =>
        LET a == lastGameResults.accuracy
            w == lastGameResults.wpm
        IN /\ a.den > 0
           /\ w.den > 0
           /\ totalTyped = 0 => (a.num = 0 /\ w.num = 0)
           /\ totalTyped > 0 => a.num * totalTyped = totalCorrect * 100 * a.den
           /\ 0 <= a.num
           /\ a.num <= 100 * a.den
           /\ w.num * 5 * GAME_DURATION = totalCorrect * 60 * w.den

\* the countdown has ended a session in which nothing was typed
C12_Witness ==
    /\ status = "finished"
    /\ endGameCalls = 1
    /\ lastGameResults # NoResults
    /\ totalTyped = 0
    /\ lastGameResults.accuracy.num = 0

\* the countdown has ended a session with 2 characters of 3 correct
C12_WitnessTwoThirds ==
    /\ status = "finished"
    /\ lastGameResults # NoResults
    /\ totalTyped = 3
    /\ totalCorrect = 2

\* C13 (as claimed): a start request issued while the phrase catalog is empty
\* does not leave the session in Playing, and status is Ready afterwards.
C13_Claim ==
    [][(Len(phrases) = 0 /\ nStarts' = nStarts + 1) =>
          (status' # "playing" /\ status' = "ready")]_vars

\* C14 (as claimed): when the load of the phrase catalog or of the quest
\* catalog has failed (initialization rejected), no start request brings the
\* session to Playing.
C14_Claim == initRejected => status # "playing"

\* C15 (as claimed): a start request that arrives while Playing with the
\* countdown armed leaves no interval of the previous session running, so no
\* interval armed before the latest start request ever fires, and at most
\* one interval runs at any time.
C15_Claim ==
    /\ [](Cardinality(intervals) <= 1)
    /\ [][(status = "playing" /\ intervals # {} /\ nStarts' = nStarts + 1) =>
             intervals' = {}]_vars
    /\ [][(\E id \in intervals : Tick(id)) => ~startsSinceArm]_vars

\* C16: over every interleaving of start, change, commit, composition and
\* tick events at most one interval runs, and it is the one state.intervalId
\* names, armed with isGameStarted set; a change event processed while an
\* interval runs arms nothing; and no callback lowers timer by more than 1
\* (one interval fires once per elapsed second).
C16_AtMostOneCountdown ==
    /\ [](Cardinality(intervals) <= 1)
    /\ [](intervals # {} => (isGameStarted /\ intervals = {intervalId}))
    /\ [][(ChangeEvent /\ intervals # {}) =>
             (intervals' = intervals /\ intervalId' = intervalId)]_vars
    /\ [][timer' >= timer - 1]_vars

\* a second session under the countdown of the first, in which the player
\* has typed a first character that would qualify to arm a countdown
C16_Witness ==
    /\ nStarts = 2
    /\ startsSinceArm
    /\ intervals = {intervalId}
    /\ status = "playing"
    /\ ~isComposing
    /\ totalTyped = 1
    /\ Len(hiddenInput) = 1
    /\ Trim(hiddenInput) # <<>>

\* C17: between callbacks, status = Playing implies that currentPhrase is a
\* phrase of the catalog (never null), and no change or commit callback has
\* failed for want of an expected text.
C17_PlayingHasPhrase ==
    /\ status = "playing" =>
           /\ currentPhrase # NoPhrase
           /\ \E i \in 1..Len(phrases) : phrases[i] = currentPhrase
    /\ ~raised

\* Playing in a second session, after a phrase advance at a commit
C17_Witness ==
    /\ status = "playing"
    /\ nStarts = 2
    /\ phrasesCompleted = 1
    /\ totalTyped > 0
    /\ currentPhrase = PhraseB

\* C18: an input event that arrives while a composition session is open is
\* not passed to handleInput: it changes the field text only, and score,
\* combo, misses, the typed and correct counters, the quests and the
\* countdown stay as they are.
C18_SuppressedWhileComposing ==
    [][(isComposing /\ \E v \in limits.buffers : InputEvent(v)) =>
          /\ UNCHANGED <<stateVars, questVars, platformVars, isComposing>>
          /\ UNCHANGED <<nChanges, sessionMisses, awards, phrasesCompleted>>]_vars

\* Playing, composition open, a character in the field and nothing counted
C18_Witness ==
    /\ status = "playing"
    /\ isComposing
    /\ hiddenInput = <<"a">>
    /\ totalTyped = 0
    /\ intervals = {}

\* C19: the callback of compositionend clears the composing flag and, in the
\* same callback, passes the field text as it stands to handleInput exactly
\* once: while Playing one more character is counted, classified by the last
\* character of that text, and the countdown is armed if the text qualifies;
\* outside Playing nothing is counted.  The field text itself is unchanged.
C19_CompositionCloseEmitsOnce ==
    [][compositionClosed' =>
          /\ isComposing /\ ~isComposing'
          /\ hiddenInput' = hiddenInput
          /\ IF status = "playing"
             THEN /\ totalTyped' = totalTyped + 1
                  /\ nChanges' = nChanges + 1
                  /\ totalCorrect' =
                         totalCorrect
                         + (IF isCorrectChar(hiddenInput, currentPhrase.text)
                            THEN 1 ELSE 0)
                  /\ armsTimer(isGameStarted, hiddenInput) => intervals' # {}
             ELSE UNCHANGED <<totalTyped, totalCorrect, nChanges, score>>]_vars

\* the composed block "ab" was delivered by compositionend as one change
\* event and classified by its last character
C19_Witness ==
    /\ compositionClosed
    /\ status = "playing"
    /\ currentPhrase = PhraseB
    /\ hiddenInput = <<"a", "b">>
    /\ totalTyped = 1
    /\ totalCorrect = 1

\* C20: within a session a quest wrapper that is completed stays exactly as
\* it is (completed, same progress) through every later check, the progress
\* of a wrapper never decreases and completed never goes back to false; a
\* start request replaces the wrappers by fresh ones (not completed,
\* progress 0).
C20_CompletedQuestFrozen ==
    /\ [][nStarts' = nStarts =>
             /\ Len(activeQuests') = Len(activeQuests)
             /\ \A i \in 1..Len(activeQuests) :
                   /\ activeQuests[i].completed => activeQuests'[i] = activeQuests[i]
                   /\ activeQuests'[i].progress >= activeQuests[i].progress
                   /\ activeQuests'[i].def = activeQuests[i].def]_vars
    /\ [][nStarts' = nStarts + 1 =>
             \A i \in 1..Len(activeQuests') :
                 ~activeQuests'[i].completed /\ activeQuests'[i].progress = 0]_vars

\* the NoMiss quest was completed by the first phrase, and a second phrase
\* has been completed since
C20_Witness ==
    /\ phrasesCompleted = 2
    /\ sessionMisses = 0
    /\ \E i \in 1..Len(activeQuests) :
          /\ activeQuests[i].def.type = "no_miss"
          /\ activeQuests[i].completed
          /\ activeQuests[i].progress = 1

\* the smaller of two numbers
Min(a, b) == IF a < b THEN a ELSE b

C22_StartResetsSession ==
    [][(nStarts' = nStarts + 1 /\ Len(phrases) > 0) =>
          /\ status' = "playing"
          /\ score' = 0
          /\ combo' = 0
          /\ misses' = 0
          /\ totalTyped' = 0
          /\ totalCorrect' = 0
          /\ timer' = GAME_DURATION
          /\ \E i \in 1..Len(phrases) : phrases[i] = currentPhrase']_vars

\* a session started from Finished: the countdown of the previous game has
\* run out, its results record is kept, and the new session is at its start
C22_Witness ==
    /\ nStarts = 2
    /\ status = "playing"
    /\ endGameCalls = 1
    /\ intervals = {}
    /\ lastGameResults # NoResults
    /\ lastGameResults.score > 0
    /\ score = 0
    /\ timer = GAME_DURATION

\* a session started from Playing, under the countdown of the previous one
C22_WitnessFromPlaying ==
    /\ nStarts = 2
    /\ status = "playing"
    /\ startsSinceArm
    /\ intervals # {}
    /\ score = 0
    /\ totalTyped = 0
    /\ timer = GAME_DURATION

\* the end of a game: the countdown has run out
GameEnds == status = "playing" /\ status' = "finished" /\ Len(phrases) > 0

\* C23: no step other than a start request changes difficulty; every
\* correct character is scored with the factor of that difficulty; and the
\* game_end check is given that difficulty: a DifficultyMatch quest is
\* completed by it exactly if its condition names the difficulty chosen at
\* the start.
C23_DifficultyFixedForSession ==
    /\ [][nStarts' = nStarts => difficulty' = difficulty]_vars
    /\ [][totalCorrect' = totalCorrect + 1 =>
             score' - score - (rewardsGiven' - rewardsGiven) =
                 (basePoint * 100 * (100 + 2 * combo')
                  * (IF difficulty = "lunatic" THEN 15 ELSE 10)) \div 1000]_vars
    /\ [][GameEnds =>
             \A i \in 1..Len(activeQuests) :
                 activeQuests[i].def.type = "difficulty_specific" =>
                     (activeQuests'[i].completed <=>
                          activeQuests[i].def.difficulty = difficulty)]_vars

\* a lunatic game has ended and its DifficultyMatch quest is completed
C23_Witness ==
    /\ status = "finished"
    /\ endGameCalls = 1
    /\ difficulty = "lunatic"
    /\ totalCorrect >= 1
    /\ \E i \in 1..Len(activeQuests) :
          /\ activeQuests[i].def.type = "difficulty_specific"
          /\ activeQuests[i].completed

\* a phrase is completed by this step
PhraseCompletes == phrasesCompleted' = phrasesCompleted + 1

\* C24: at a commit that completes the phrase, the phrase_complete check is
\* given the misses accumulated since the last advance (a pending NoMiss
\* quest progresses exactly if that count is 0, a pending phrase-count quest
\* progresses in any case); after the step the per-phrase miss counter is 0,
\* a phrase of the catalog is current and the field is empty; the
\* phrase_start check that comes last changes no quest; and score has grown
\* by the time bonus and the rewards of the quests returned.
C24_CommitOrder ==
    [][PhraseCompletes =>
          /\ misses' = 0
          /\ hiddenInput' = <<>>
          /\ \E i \in 1..Len(phrases) : phrases[i] = currentPhrase'
          /\ \A i \in 1..Len(activeQuests) :
                LET q == activeQuests[i]
                    step == CASE q.completed -> 0
                              [] q.def.type = "no_miss" -> IF misses = 0 THEN 1 ELSE 0
                              [] q.def.type = "phrases_completed" -> 1
                              [] OTHER -> 0
                IN /\ activeQuests'[i].progress = q.progress + step
                   /\ activeQuests'[i].completed <=>
                          \/ q.completed
                          \/ step = 1 /\ q.progress + 1 >= q.def.count
          /\ score' - score - (rewardsGiven' - rewardsGiven) \in 0..(100 * timeBonusFactor)
         ]_vars

\* a phrase was completed with a miss on the way: the miss counter is back
\* at 0 and the NoMiss quest has not progressed
C24_Witness ==
    /\ status = "playing"
    /\ phrasesCompleted = 1
    /\ sessionMisses = 1
    /\ misses = 0
    /\ \E i \in 1..Len(activeQuests) :
          /\ activeQuests[i].def.type = "no_miss"
          /\ activeQuests[i].progress = 0

\* C25: a commit that completes the phrase raises score by the time bonus
\* b = floor((timer / GAME_DURATION) * timeBonusFactor) and the rewards of
\* the quests the phrase_complete check returns; b is a whole number within
\* 0..200, and 200 when no tick has come; a commit that does not complete
\* the phrase leaves score as it is.
C25_TimeBonus ==
    /\ [][PhraseCompletes =>
             LET bonus == score' - score - (rewardsGiven' - rewardsGiven)
                 b == bonus \div 100
             IN /\ bonus = 100 * b
                /\ b * GAME_DURATION <= timer * timeBonusFactor
                /\ timer * timeBonusFactor < (b + 1) * GAME_DURATION
                /\ 0 <= b /\ b <= 200
                /\ timer = GAME_DURATION => b = 200]_vars
    /\ [][(Commit /\ ~PhraseCompletes) => score' = score]_vars

\* the phrase "a" was completed at timer = 31 in a normal game: 10.2 for
\* the character and a time bonus of 103
C25_Witness ==
    /\ status = "playing"
    /\ phrasesCompleted = 1
    /\ totalTyped = 1
    /\ difficulty = "normal"
    /\ timer = 31
    /\ score - rewardsGiven = 1020 + 10300

\* C26 (as claimed): the progress of a pending NoMiss quest is the number of
\* consecutive zero-miss phrase completions: a completion with misses = 0
\* adds 1, a completion with misses > 0 ends the streak (the counter starts
\* again from 0), and the quest is completed when the counter reaches
\* condition.count.
C26_Claim ==
    [][PhraseCompletes =>
          \A i \in 1..Len(activeQuests) :
              (activeQuests[i].def.type = "no_miss" /\ ~activeQuests[i].completed) =>
                  /\ activeQuests'[i].progress =
                         (IF misses = 0 THEN activeQuests[i].progress + 1 ELSE 0)
                  /\ activeQuests'[i].completed <=>
                         activeQuests'[i].progress >= activeQuests[i].def.count]_vars

\* C27: within a session a quest wrapper changes, or is returned, only in a
\* step that runs the check of its own event type: a combo quest at a
\* change event (stat_update), a NoMiss or phrase-count quest at a phrase
\* completion (phrase_complete), an accuracy or difficulty quest at the end
\* of the game (game_end).  The phrase_start check changes none: at a phrase
\* completion a counter grows by 1 at most, and after a start request every
\* wrapper is still fresh.
C27_OneEventTypePerQuest ==
    [][/\ nStarts' = nStarts =>
             \A i \in 1..Len(activeQuests) :
                 (activeQuests'[i] # activeQuests[i] \/ awards'[i] # awards[i]) =>
                     /\ activeQuests'[i].progress <= activeQuests[i].progress + 1
                     /\ CASE activeQuests[i].def.type = "combo" ->
                               totalTyped' = totalTyped + 1
                          [] activeQuests[i].def.type \in {"no_miss", "phrases_completed"} ->
                               PhraseCompletes
                          [] activeQuests[i].def.type \in {"accuracy", "difficulty_specific"} ->
                               GameEnds
                          [] OTHER -> FALSE
       /\ nStarts' = nStarts + 1 =>
             \A i \in 1..Len(activeQuests') :
                 /\ activeQuests'[i].progress = 0
                 /\ ~activeQuests'[i].completed
                 /\ awards'[i] = 0]_vars

\* a game has ended after characters typed and a phrase completed: the
\* accuracy quest is completed, the phrase-count quest has counted the one
\* phrase and nothing else
C27_Witness ==
    /\ status = "finished"
    /\ endGameCalls = 1
    /\ totalTyped = 2
    /\ phrasesCompleted = 1
    /\ \E i, j \in 1..Len(activeQuests) :
          /\ activeQuests[i].def.type = "phrases_completed"
          /\ activeQuests[i].progress = 1
          /\ ~activeQuests[i].completed
          /\ activeQuests[j].def.type = "accuracy"
          /\ activeQuests[j].completed

\* C28: when a game ends, an accuracy quest becomes completed iff the
\* accuracy of the results is at least its target, and a difficulty quest
\* iff the difficulty of the session is the one it names; in every other
\* step neither kind of quest becomes completed.
C28_GameEndQuests ==
    [][/\ GameEnds =>
             \A i \in 1..Len(activeQuests) :
                 CASE activeQuests[i].def.type = "accuracy" ->
                        /\ ~activeQuests[i].completed
                        /\ activeQuests'[i].completed <=>
                              lastGameResults'.accuracy.num >=
                                 activeQuests[i].def.target * lastGameResults'.accuracy.den
                        /\ awards'[i] = IF activeQuests'[i].completed THEN 1 ELSE 0
                   [] activeQuests[i].def.type = "difficulty_specific" ->
                        /\ ~activeQuests[i].completed
                        /\ activeQuests'[i].completed <=>
                              difficulty = activeQuests[i].def.difficulty
                        /\ awards'[i] = IF activeQuests'[i].completed THEN 1 ELSE 0
                   [] OTHER -> TRUE
       /\ ~GameEnds =>
             \A i \in 1..Len(activeQuests') :
                 (/\ activeQuests'[i].def.type \in {"accuracy", "difficulty_specific"}
                  /\ activeQuests'[i].completed)
                     => /\ nStarts' = nStarts
                        /\ activeQuests[i].completed]_vars

\* a game has ended with an accuracy of exactly the target, 50, on lunatic:
\* both quests are completed and rewarded
C28_Witness ==
    /\ status = "finished"
    /\ endGameCalls = 1
    /\ totalTyped = 2
    /\ totalCorrect = 1
    /\ \E i, j \in 1..Len(activeQuests) :
          /\ activeQuests[i].def.type = "accuracy"
          /\ activeQuests[i].def.target = 50
          /\ activeQuests[i].completed
          /\ awards[i] = 1
          /\ activeQuests[j].def.type = "difficulty_specific"
          /\ activeQuests[j].completed
          /\ awards[j] = 1

\* a game has ended below the target of 90 and on another difficulty: no
\* quest of the two kinds is completed
C28_WitnessNotCompleted ==
    /\ status = "finished"
    /\ endGameCalls = 1
    /\ totalTyped = 2
    /\ totalCorrect = 1
    /\ difficulty = "normal"
    /\ \A i \in 1..Len(activeQuests) :
          activeQuests[i].def.type \in {"accuracy", "difficulty_specific"} =>
              ~activeQuests[i].completed /\ awards[i] = 0
    /\ \E i \in 1..Len(activeQuests) : activeQuests[i].def.type = "accuracy"

\* C29: a change event whose text is empty or is one white-space character,
\* arriving while the countdown is not armed, leaves the countdown not armed
\* (no interval is created, isGameStarted stays false) and leaves the timer
\* as it is.
C29_BlankNeverArms ==
    [][(/\ ~isGameStarted
        /\ hiddenInput' \in {<<>>, <<" ">>}
        /\ ChangeEvent) =>
           /\ ~isGameStarted'
           /\ intervals' = intervals
           /\ intervalId' = intervalId
           /\ timer' = timer]_vars

\* Playing, the one change event processed in the session carried a single
\* blank: it was counted, and the countdown is not armed
C29_Witness ==
    /\ status = "playing"
    /\ hiddenInput = <<" ">>
    /\ ~isComposing
    /\ nChanges = 1
    /\ totalTyped = 1
    /\ ~isGameStarted
    /\ intervals = {}
    /\ timer = GAME_DURATION

\* the same for a change event with the empty text
C29_WitnessEmpty ==
    /\ status = "playing"
    /\ hiddenInput = <<>>
    /\ ~isComposing
    /\ nChanges = 1
    /\ totalTyped = 1
    /\ ~isGameStarted
    /\ intervals = {}
    /\ timer = GAME_DURATION

\* C30 (as claimed): every step from Playing to Finished at the end of a
\* game emits one results record, with the score rounded to the nearest
\* integer, shows it on the results screen, appends it to the persisted
\* history, and ends without throwing.
C30_Claim ==
    [][GameEnds =>
          /\ endGameCalls' = endGameCalls + 1
          /\ lastGameResults' = [score |-> Round(score'),
                                 accuracy |-> accuracyOf(totalTyped, totalCorrect),
                                 wpm |-> wpmOf(totalCorrect)]
          /\ resultsScreen' = lastGameResults'
          /\ stored' = Append(stored, lastGameResults')
          /\ endGameErrors' = endGameErrors]_vars

\* C31 (as claimed): when the input event of a composition is delivered
\* after its compositionend (the field text is the same, the composition is
\* closed), the text is not classified a second time: totalTyped, the score
\* and the other counters stay as compositionend left them.
C31_Claim ==
    [][(/\ compositionClosed
        /\ status = "playing"
        /\ hiddenInput' = hiddenInput
        /\ InputEvent(hiddenInput)) =>
           UNCHANGED <<totalTyped, totalCorrect, score, combo, misses>>]_vars

\* C32 (as claimed): while Playing, a change event whose text is empty does
\* not increase combo, totalCorrect or score, and a change event whose text
\* is the previous text with its end deleted counts no character: combo,
\* totalCorrect, totalTyped, misses and score stay as they are.
C32_Claim ==
    [][/\ (/\ status = "playing"
           /\ hiddenInput' = <<>>
           /\ ChangeEvent) =>
              /\ combo' <= combo
              /\ totalCorrect' = totalCorrect
              /\ score' <= score
       /\ (/\ status = "playing"
           /\ Len(hiddenInput') < Len(hiddenInput)
           /\ hiddenInput' = SubSeq(hiddenInput, 1, Len(hiddenInput'))
           /\ ChangeEvent) =>
              UNCHANGED <<combo, totalCorrect, totalTyped, misses, score>>]_vars

\* C33 (as claimed): once a session, with no later start request, has
\* processed while Playing a change event whose text is neither empty nor
\* blank, it reaches Finished, the interval firing every second.
C33_Claim ==
    (/\ status = "playing"
     /\ nChanges = 1
     /\ totalTyped = 1
     /\ ~isComposing
     /\ Trim(hiddenInput) # <<>>) ~> (status = "finished")

\* C34: while Playing, a commit whose text differs from the text of the
\* current phrase changes nothing: the phrase, the field text, the score,
\* combo, misses, totalTyped, totalCorrect, the timer, the number of phrases
\* completed, the quests and their rewards, the status and the countdown
\* are as before.
C34_MismatchedCommitIgnored ==
    [][(/\ status = "playing"
        /\ hiddenInput # currentPhrase.text
        /\ Commit) =>
           UNCHANGED <<currentPhrase, hiddenInput, score, combo, misses,
                       totalTyped, totalCorrect, timer, phrasesCompleted,
                       activeQuests, awards, status, intervals, intervalId,
                       isGameStarted>>]_vars

\* Playing with the countdown running, two characters typed, and a field
\* text that starts with a blank and then spells the phrase: a commit is
\* enabled and its text is not the phrase
C34_Witness ==
    /\ status = "playing"
    /\ intervals # {}
    /\ ~isComposing
    /\ totalTyped = 2
    /\ phrasesCompleted = 0
    /\ hiddenInput = <<" ", "a">>
    /\ currentPhrase = PhraseA
    /\ ENABLED Commit

\* C35: the timer is changed only by a tick, which takes 1 from it, and by
\* a start request, which sets it to GAME_DURATION; change events, commits
\* and phrase advances leave it as it is; before and after every step it is
\* within 0..GAME_DURATION, and it is 0 only when the status is Finished.
C35_TimerSteps ==
    [][/\ timer \in 0..GAME_DURATION /\ timer' \in 0..GAME_DURATION
       /\ timer = 0 => status = "finished"
       /\ timer' = 0 => status' = "finished"
       /\ timer' # timer =>
             \/ /\ nStarts' = nStarts + 1
                /\ timer' = GAME_DURATION
             \/ /\ nStarts' = nStarts
                /\ timer' = timer - 1
                /\ \E id \in intervals : Tick(id)]_vars

\* Finished with the timer at 0 in a session that was started anew while
\* the countdown was running
C35_Witness ==
    /\ status = "finished"
    /\ timer = 0
    /\ nStarts = 2
    /\ startsSinceArm
    /\ endGameCalls = 1

\* Playing after a phrase advance, the countdown running and the timer
\* lowered by the one tick
C35_WitnessAdvance ==
    /\ status = "playing"
    /\ phrasesCompleted = 1
    /\ intervals # {}
    /\ timer = GAME_DURATION - 1

\* the scoreBonus, in hundredths, of the quests returned in this step
stepRewards ==
    100 * SumSeq([i \in 1..Len(activeQuests) |->
                    IF awards'[i] > awards[i]
                    THEN activeQuests[i].def.scoreBonus ELSE 0])

\* C36: at the end of a game the rewards of the quests completed by the
\* game_end check are added to the score before the results record is
\* built: the score of the record, on the results screen and in
\* lastGameResults, is the rounded score with these rewards, and its
\* accuracy and wpm are those of the counters as the last tick found them.
C36_ResultsAfterRewards ==
    [][GameEnds =>
          /\ score' = score + stepRewards
          /\ lastGameResults'.score = Round(score + stepRewards)
          /\ lastGameResults'.accuracy = accuracyOf(totalTyped, totalCorrect)
          /\ lastGameResults'.wpm = wpmOf(totalCorrect)
          /\ resultsScreen' = lastGameResults'
          /\ UNCHANGED <<totalTyped, totalCorrect>>]_vars

\* a game has ended in which the game_end check returned the accuracy quest
\* and the difficulty quest: the score of the record holds both rewards
C36_Witness ==
    /\ status = "finished"
    /\ endGameCalls = 1
    /\ totalTyped > 0
    /\ \E i, j \in 1..Len(activeQuests) :
          /\ activeQuests[i].def.type = "accuracy"
          /\ awards[i] = 1
          /\ activeQuests[j].def.type = "difficulty_specific"
          /\ awards[j] = 1
          /\ lastGameResults.score >=
                 activeQuests[i].def.scoreBonus + activeQuests[j].def.scoreBonus
    /\ lastGameResults.score = Round(score)
    /\ resultsScreen = lastGameResults

====
